---------------------------- MODULE Spec2Model ----------------------------
(***************************************************************************)
(* A model of function_app.py: the three HTTP handlers of the function     *)
(* app (http_trigger_v3, http_trigger, http_trigger2), the collaborators   *)
(* http_trigger_v3 calls (secret store, PostgreSQL, pandas/xlsxwriter,     *)
(* blob storage) and the Python value semantics the handlers rely on       *)
(* (truthiness, str(), str.strip(), int()).                                *)
(***************************************************************************)
EXTENDS Integers, Sequences, FiniteSets, TLC

(***************************************************************************)
(* Bounds of the model.                                                    *)
(***************************************************************************)
\* longest azure_container_name / name string a request carries
MaxNameLen == 1
\* longest limit string a request carries
MaxLimitLen == 2
\* largest number of rows of the source table
MaxRows == 3

(***************************************************************************)
(* Python values.  A string is a sequence of one-character strings.        *)
(***************************************************************************)
None == [t |-> "none", s |-> <<>>, n |-> 0]
StrV(s) == [t |-> "str", s |-> s, n |-> 0]
IntV(n) == [t |-> "int", s |-> <<>>, n |-> n]
BoolV(b) == [t |-> "bool", s |-> <<>>, n |-> IF b THEN 1 ELSE 0]

Digits == <<"0", "1", "2", "3", "4", "5", "6", "7", "8", "9">>
IsDigit(c) == \E i \in 1..Len(Digits) : Digits[i] = c
DigitVal(c) == (CHOOSE i \in 1..Len(Digits) : Digits[i] = c) - 1
IsSpace(c) == c = " "

\* the strings of length at most n over the characters chars
RECURSIVE StringsUpTo(_, _)
StringsUpTo(chars, n) ==
    IF n = 0 THEN {<<>>}
    ELSE LET shorter == StringsUpTo(chars, n - 1)
         IN  shorter \cup {Append(s, c) : s \in shorter, c \in chars}

\* bool(v): Python truthiness, as used by `not v` and `a or b`
Truthy(v) ==
    CASE v.t = "none" -> FALSE
      [] v.t = "str"  -> v.s # <<>>
      [] v.t = "int"  -> v.n # 0
      [] v.t = "bool" -> v.n # 0

\* the decimal digits of a natural number
RECURSIVE NatToStr(_)
NatToStr(n) ==
    IF n < 10 THEN <<Digits[n + 1]>>
    ELSE Append(NatToStr(n \div 10), Digits[(n % 10) + 1])

\* str(v)
PyStr(v) ==
    CASE v.t = "none" -> <<"N", "o", "n", "e">>
      [] v.t = "str"  -> v.s
      [] v.t = "int"  -> IF v.n < 0 THEN <<"-">> \o NatToStr(-v.n) ELSE NatToStr(v.n)
      [] v.t = "bool" -> IF v.n = 1 THEN <<"T", "r", "u", "e">>
                         ELSE <<"F", "a", "l", "s", "e">>

\* s.lstrip() and s.rstrip()
RECURSIVE LStrip(_)
LStrip(s) == IF s # <<>> /\ IsSpace(Head(s)) THEN LStrip(Tail(s)) ELSE s
RECURSIVE RStrip(_)
RStrip(s) ==
    IF s # <<>> /\ IsSpace(s[Len(s)]) THEN RStrip(SubSeq(s, 1, Len(s) - 1)) ELSE s
\* s.strip()
Strip(s) == RStrip(LStrip(s))

\* the value of a nonempty sequence of digits
RECURSIVE DigitsVal(_)
DigitsVal(s) ==
    IF s = <<>> THEN 0
    ELSE 10 * DigitsVal(SubSeq(s, 1, Len(s) - 1)) + DigitVal(s[Len(s)])

\* int(v): [ok |-> whether it returns, n |-> the integer]; ok = FALSE stands for
\* the ValueError / TypeError it raises.  A string is stripped, may carry one
\* sign, and must then be a nonempty run of digits.
PyInt(v) ==
    CASE v.t = "int"  -> [ok |-> TRUE, n |-> v.n]
      [] v.t = "bool" -> [ok |-> TRUE, n |-> v.n]
      [] v.t = "none" -> [ok |-> FALSE, n |-> 0]
      [] v.t = "str"  ->
           LET b == Strip(v.s)
               signed == b # <<>> /\ Head(b) \in {"-", "+"}
               d == IF signed THEN Tail(b) ELSE b
           IN  IF d # <<>> /\ \A i \in 1..Len(d) : IsDigit(d[i])
               THEN [ok |-> TRUE,
                     n |-> IF signed /\ Head(b) = "-" THEN -DigitsVal(d) ELSE DigitsVal(d)]
               ELSE [ok |-> FALSE, n |-> 0]

(***************************************************************************)
(* HTTP requests.  req.params.get(k) is None or a string; a JSON body is   *)
(* absent, unparseable (get_json raises ValueError), a JSON value that is  *)
(* no object (array, string, number, true, false, null), or an object,     *)
(* whose absent fields read as None through dict.get.                      *)
(***************************************************************************)
NameChars == {" ", "x"}
LimitChars == {" ", "-", "0", "1", "a"}
NameStrings == StringsUpTo(NameChars, MaxNameLen)
LimitStrings == StringsUpTo(LimitChars, MaxLimitLen)

QueryNames == {None} \cup {StrV(s) : s \in NameStrings}
QueryLimits == {None} \cup {StrV(s) : s \in LimitStrings}
JsonNames == QueryNames
JsonLimits == QueryLimits \cup {IntV(-1), IntV(0), IntV(1), IntV(2), BoolV(TRUE), BoolV(FALSE)}
JsonGreetNames == QueryNames \cup {IntV(0), IntV(1)}

Body(kind, cname, lim, nm) ==
    [kind |-> kind, azure_container_name |-> cname, limit |-> lim, name |-> nm]
NoBody == Body("none", None, None, None)
GarbageBody == Body("garbage", None, None, None)
NonObjectBody == Body("nonobject", None, None, None)
PlainBodies == {NoBody, GarbageBody, NonObjectBody}

Request(route, cname, lim, nm, body) ==
    [route |-> route, azure_container_name |-> cname, limit |-> lim, name |-> nm,
     body |-> body]
NoReq == Request("", None, None, None, NoBody)

\* every request of the validation specification
ExportRequestsV ==
    {Request("http_trigger_v3", c, l, None, b) :
        c \in QueryNames, l \in QueryLimits,
        b \in PlainBodies \cup {Body("object", bc, bl, None) : bc \in JsonNames, bl \in JsonLimits}}
GreetRequestsV ==
    {Request(rt, None, None, nm, b) :
        rt \in {"http_trigger", "http_trigger2"}, nm \in QueryNames,
        b \in PlainBodies \cup {Body("object", None, None, bn) : bn \in JsonGreetNames}}
RequestsV == ExportRequestsV \cup GreetRequestsV

\* the requests of the specifications that are not about validation
RequestsP ==
    {Request("http_trigger_v3", StrV(<<"x">>), StrV(<<"1">>), None, NoBody),
     Request("http_trigger_v3", StrV(<<"x">>), StrV(<<"1", "1">>), None, GarbageBody),
     Request("http_trigger_v3", None, None, None,
             Body("object", StrV(<<"x", "x">>), IntV(2), None)),
     Request("http_trigger_v3", None, StrV(<<"1">>), None, NoBody),
     Request("http_trigger", None, None, StrV(<<"x">>), NoBody),
     Request("http_trigger2", None, None, None, NoBody)}

(***************************************************************************)
(* The source table, the DataFrame read from it and the workbook.  A cell  *)
(* of the table is a string; NULL stands for SQL NULL (NaN / None in       *)
(* pandas).  A count of the pivot table is a number.                       *)
(***************************************************************************)
NULL == "NULL"
\* the values of the first column, in their natural order
KeyOrder == <<"a", "b">>
Keys == {KeyOrder[i] : i \in 1..Len(KeyOrder)}
Vals == {"1"}
ColumnSets == {<<>>, <<"category">>, <<"category", "value">>}

\* the rows a table of the given columns may hold
RowsOf(cols) ==
    CASE Len(cols) = 0 -> {<<>>}
      [] Len(cols) = 1 -> {<<k>> : k \in Keys \cup {NULL}}
      [] Len(cols) = 2 -> {<<k, v>> : k \in Keys \cup {NULL}, v \in Vals \cup {NULL}}

SeqsUpTo(S, n) == UNION {[1..m -> S] : m \in 0..n}

Table(cols, rows) == [cols |-> cols, rows |-> rows]
\* every table of the rendering specification
TablesR == UNION {{Table(c, rs) : rs \in SeqsUpTo(RowsOf(c), MaxRows)} : c \in ColumnSets}
\* the tables of the other specifications: two columns, every row the same
SameRows(n) == [i \in 1..n |-> <<"a", "1">>]
TablesSmall == {Table(<<"category", "value">>, SameRows(n)) : n \in 0..MaxRows}

Min(a, b) == IF a <= b THEN a ELSE b

\* ReadSqlQuery without the LIMIT clause
ReadSqlQueryUnbounded(tbl, lim) == tbl

\* pd.read_sql_query("SELECT * FROM <table> LIMIT <limit>", conn)
ReadSqlQuery(tbl, lim) == Table(tbl.cols, SubSeq(tbl.rows, 1, Min(lim, Len(tbl.rows))))

\* CountOf counting the null values too (aggfunc='size')
RECURSIVE CountOfSize(_, _)
CountOfSize(rows, k) ==
    IF rows = <<>> THEN 0
    ELSE CountOfSize(Tail(rows), k) + (IF Head(rows)[1] = k THEN 1 ELSE 0)

\* count of the rows of key k whose second column is not null
RECURSIVE CountOf(_, _)
CountOf(rows, k) ==
    IF rows = <<>> THEN 0
    ELSE CountOf(Tail(rows), k)
         + (IF Head(rows)[1] = k /\ Head(rows)[2] # NULL THEN 1 ELSE 0)

\* pd.pivot_table(df, index=[df.columns[0]], values=[df.columns[1]], aggfunc='count'):
\* one row per key of the first column, in key order; groupby drops the rows
\* whose key is null
PivotTable(df) ==
    LET present(k) == \E i \in 1..Len(df.rows) : df.rows[i][1] = k
        idx == SelectSeq([i \in 1..Len(KeyOrder) |-> i], LAMBDA i : present(KeyOrder[i]))
    IN  [header |-> <<df.cols[1], df.cols[2]>>,
         rows |-> [j \in 1..Len(idx) |->
                     <<KeyOrder[idx[j]], CountOf(df.rows, KeyOrder[idx[j]])>>]]

MessageSheet ==
    [header |-> <<"Message">>, rows |-> << <<"Not enough columns for pivot table">> >>]

\* the workbook written through pd.ExcelWriter: sheets Data and PivotTable
Workbook(df) ==
    [Data |-> [header |-> df.cols, rows |-> df.rows],
     PivotTable |-> IF Len(df.cols) >= 2 THEN PivotTable(df) ELSE MessageSheet]

NoDf == Table(<<"-">>, <<>>)
NoFile == [Data |-> [header |-> <<"-">>, rows |-> <<>>], PivotTable |-> [header |-> <<>>, rows |-> <<>>]]

(***************************************************************************)
(* Parameter resolution and validation of http_trigger_v3.                 *)
(***************************************************************************)
\* lines 23-35: the query parameters, then the JSON body for a parameter that
\* is falsy.  raised: req_body.get fails on a body that is no object.
Resolve(q) ==
    LET needName == ~Truthy(q.azure_container_name)
        needLimit == ~Truthy(q.limit)
        \* get_json() raising ValueError leaves req_body = {}
        fromBody(v) == IF q.body.kind = "object" THEN v ELSE None
    IN  IF (needName \/ needLimit) /\ q.body.kind = "nonobject"
        THEN [raised |-> TRUE, azure_container_name |-> q.azure_container_name,
              limit |-> q.limit]
        ELSE [raised |-> FALSE,
              azure_container_name |->
                  IF needName THEN fromBody(q.body.azure_container_name)
                  ELSE q.azure_container_name,
              limit |-> IF needLimit THEN fromBody(q.body.limit) ELSE q.limit]

MsgName == "Missing or empty required parameter: azure_container_name"
MsgLimit == "Missing or empty required parameter: limit"
MsgPositive == "Parameter 'limit' must be a positive integer"
MsgInteger == "Parameter 'limit' must be an integer"

\* lines 38-47: text = "" when both parameters are accepted, limit = int(limit)
Validate(cname, lim) ==
    IF ~Truthy(cname) \/ Strip(PyStr(cname)) = <<>>
    THEN [text |-> MsgName, limit |-> lim]
    ELSE IF ~Truthy(lim) \/ Strip(PyStr(lim)) = <<>>
    THEN [text |-> MsgLimit, limit |-> lim]
    ELSE IF ~PyInt(lim).ok
    THEN [text |-> MsgInteger, limit |-> lim]
    ELSE IF PyInt(lim).n <= 0
    THEN [text |-> MsgPositive, limit |-> IntV(PyInt(lim).n)]
    ELSE [text |-> "", limit |-> IntV(PyInt(lim).n)]

(***************************************************************************)
(* Responses and the state of the function app.                            *)
(***************************************************************************)
Response(status, text, err, nm, records) ==
    [status |-> status, text |-> text, err |-> err, name |-> nm, records |-> records]
NoResp == Response(0, "", "", None, 0)

MsgConnect == "PostgreSQL connection failed: "
MsgFetch == "Failed to fetch data from PostgreSQL: "
MsgExcel == "Failed to generate Excel file: "
MsgUpload == "Failed to upload to Azure Blob Storage: "
MsgDone == "Excel file with {records} records and pivot table uploaded to blob storage as output.xlsx"
MsgHello == "Hello, {name}. This HTTP triggered function executed successfully."
MsgHello2 == "Hello from http_trigger2, {name}. This HTTP triggered function executed successfully."
MsgGeneric == "This HTTP triggered function executed successfully. Pass a name in the query string or in the request body for a personalized response."
MsgGeneric2 == "This HTTP triggered function (http_trigger2) executed successfully. Pass a name in the query string or in the request body for a personalized response."

\* the messages an external call fails with
ErrTexts == {"timeout", "denied"}
SecretNames == <<"SECRET-BLOB-CONN", "SECRET-DB-HOST", "SECRET-DB-USER", "SECRET-DB-PASS">>
\* the invocations the platform runs at the same time
Reqs == {1, 2}
\* the blob containers a validated request can name
ContainerNames == {s \in NameStrings \cup {<<"x", "x">>} : Strip(s) # <<>>}
NoCalls == [secret |-> 0, connect |-> 0, query |-> 0, close |-> 0, render |-> 0, upload |-> 0]
NoFault == [stage |-> "", err |-> ""]

VARIABLES
    table,                  \* the rows of POSTGRES_TABLE
    blobs,                  \* blob storage: container -> content of BLOB_FILE_NAME
    req,                    \* req of each invocation
    pc,                     \* the statement each invocation is at
    azure_container_name,   \* local of http_trigger_v3
    limit,                  \* local of http_trigger_v3
    secrets,                \* number of secrets read (lines 54-57)
    conn,                   \* "none", "open" or "closed"
    df,                     \* local of http_trigger_v3
    file_stream,            \* local of http_trigger_v3
    pending,                \* value of a return statement waiting for `finally`
    resp,                   \* the HttpResponse returned
    exc,                    \* the exception that left the handler
    calls,                  \* external calls made by the invocation
    fault                   \* the first external call that failed, and its message

vars == <<table, blobs, req, pc, azure_container_name, limit, secrets, conn, df,
          file_stream, pending, resp, exc, calls, fault>>
locals == <<azure_container_name, limit, secrets, conn, df, file_stream, pending>>

InitWith(tables) ==
    /\ table \in tables
    /\ blobs = [c \in ContainerNames |-> NoFile]
    /\ req = [r \in Reqs |-> NoReq]
    /\ pc = [r \in Reqs |-> "idle"]
    /\ azure_container_name = [r \in Reqs |-> None]
    /\ limit = [r \in Reqs |-> None]
    /\ secrets = [r \in Reqs |-> 0]
    /\ conn = [r \in Reqs |-> "none"]
    /\ df = [r \in Reqs |-> NoDf]
    /\ file_stream = [r \in Reqs |-> NoFile]
    /\ pending = [r \in Reqs |-> NoResp]
    /\ resp = [r \in Reqs |-> NoResp]
    /\ exc = [r \in Reqs |-> ""]
    /\ calls = [r \in Reqs |-> NoCalls]
    /\ fault = [r \in Reqs |-> NoFault]

Set(f, r, v) == [f EXCEPT ![r] = v]
Called(r, op) == [calls EXCEPT ![r][op] = @ + 1]
\* the handler returns the response rsp
Returns(r, rsp) == resp' = Set(resp, r, rsp) /\ pc' = Set(pc, r, "done")
\* an exception leaves the handler
Raises(r, e) == exc' = Set(exc, r, e) /\ pc' = Set(pc, r, "done")
\* an external call fails with message e: the first failure is remembered
Fails(r, stage, e) ==
    fault' = IF fault[r] = NoFault THEN Set(fault, r, [stage |-> stage, err |-> e]) ELSE fault

\* the platform hands a request to its handler
Receive(r, requests) ==
    /\ pc[r] = "idle"
    /\ \E q \in requests :
          /\ req' = Set(req, r, q)
          /\ pc' = Set(pc, r, IF q.route = "http_trigger_v3" THEN "validate" ELSE "greet")
    /\ UNCHANGED <<table, blobs, locals, resp, exc, calls, fault>>

\* http_trigger_v3, lines 20-47
ResolveAndValidate(r) ==
    /\ pc[r] = "validate"
    /\ LET got == Resolve(req[r])
           chk == Validate(got.azure_container_name, got.limit)
       IN  /\ azure_container_name' = Set(azure_container_name, r, got.azure_container_name)
           /\ IF got.raised
              THEN /\ limit' = Set(limit, r, got.limit)
                   /\ Raises(r, "AttributeError")
                   /\ UNCHANGED resp
              ELSE /\ limit' = Set(limit, r, chk.limit)
                   /\ IF chk.text # ""
                      THEN Returns(r, Response(400, chk.text, "", None, 0)) /\ UNCHANGED exc
                      ELSE pc' = Set(pc, r, "secrets") /\ UNCHANGED <<resp, exc>>
    /\ UNCHANGED <<table, blobs, req, secrets, conn, df, file_stream, pending, calls, fault>>

\* lines 50-57: one client.get_secret(...) call; the calls are outside every try
GetSecret(r) ==
    /\ pc[r] = "secrets"
    /\ calls' = Called(r, "secret")
    /\ \/ /\ secrets' = Set(secrets, r, secrets[r] + 1)
          /\ pc' = Set(pc, r, IF secrets[r] + 1 = Len(SecretNames) THEN "connect" ELSE "secrets")
          /\ UNCHANGED <<exc, fault>>
       \/ \E e \in ErrTexts :
             /\ Fails(r, "secret", e)
             /\ Raises(r, e)
             /\ UNCHANGED secrets
    /\ UNCHANGED <<table, blobs, req, azure_container_name, limit, conn, df, file_stream,
                   pending, resp>>

\* lines 74-79: psycopg2.connect
Connect(r) ==
    /\ pc[r] = "connect"
    /\ calls' = Called(r, "connect")
    /\ \/ /\ conn' = Set(conn, r, "open")
          /\ pc' = Set(pc, r, "query")
          /\ UNCHANGED <<resp, fault>>
       \/ \E e \in ErrTexts :
             /\ Fails(r, "connect", e)
             /\ Returns(r, Response(500, MsgConnect, e, None, 0))
             /\ UNCHANGED conn
    /\ UNCHANGED <<table, blobs, req, azure_container_name, limit, secrets, df,
                   file_stream, pending, exc>>

\* lines 82-88: the query; a return in the except clause waits for `finally`
Query(r) ==
    /\ pc[r] = "query"
    /\ calls' = Called(r, "query")
    /\ pc' = Set(pc, r, "close")
    /\ \/ /\ df' = Set(df, r, ReadSqlQuery(table, limit[r].n))
          /\ UNCHANGED <<pending, fault>>
       \/ \E e \in ErrTexts :
             /\ Fails(r, "query", e)
             /\ pending' = Set(pending, r, Response(500, MsgFetch, e, None, 0))
             /\ UNCHANGED df
    /\ UNCHANGED <<table, blobs, req, azure_container_name, limit, secrets, conn,
                   file_stream, resp, exc>>

\* Close with conn.close() after the try statement instead of in `finally`
CloseOnlyOnSuccess(r) ==
    /\ pc[r] = "close"
    /\ IF pending[r] # NoResp
       THEN Returns(r, pending[r]) /\ pending' = Set(pending, r, NoResp)
            /\ UNCHANGED <<calls, conn>>
       ELSE /\ calls' = Called(r, "close")
            /\ conn' = Set(conn, r, "closed")
            /\ pc' = Set(pc, r, "render") /\ UNCHANGED <<resp, pending>>
    /\ UNCHANGED <<table, blobs, req, azure_container_name, limit, secrets, df,
                   file_stream, exc, fault>>

\* lines 89-90: finally: conn.close().  psycopg2's close() has no failing path,
\* so no exception reaches the handler's last except clause (lines 132-134).
Close(r) ==
    /\ pc[r] = "close"
    /\ calls' = Called(r, "close")
    /\ conn' = Set(conn, r, "closed")
    /\ IF pending[r] # NoResp
       THEN Returns(r, pending[r]) /\ pending' = Set(pending, r, NoResp)
       ELSE pc' = Set(pc, r, "render") /\ UNCHANGED <<resp, pending>>
    /\ UNCHANGED <<table, blobs, req, azure_container_name, limit, secrets, df,
                   file_stream, exc, fault>>

\* Render whose except clause logs and does not return
RenderWithoutReturn(r) ==
    /\ pc[r] = "render"
    /\ calls' = Called(r, "render")
    /\ pc' = Set(pc, r, "upload")
    /\ \/ /\ file_stream' = Set(file_stream, r, Workbook(df[r]))
          /\ UNCHANGED fault
       \/ \E e \in ErrTexts : Fails(r, "render", e) /\ UNCHANGED file_stream
    /\ UNCHANGED <<table, blobs, req, azure_container_name, limit, secrets, conn, df,
                   pending, exc, resp>>

\* lines 93-110: the workbook is written to file_stream
Render(r) ==
    /\ pc[r] = "render"
    /\ calls' = Called(r, "render")
    /\ \/ /\ file_stream' = Set(file_stream, r, Workbook(df[r]))
          /\ pc' = Set(pc, r, "upload")
          /\ UNCHANGED <<resp, fault>>
       \/ \E e \in ErrTexts :
             /\ Fails(r, "render", e)
             /\ Returns(r, Response(500, MsgExcel, e, None, 0))
             /\ UNCHANGED file_stream
    /\ UNCHANGED <<table, blobs, req, azure_container_name, limit, secrets, conn, df,
                   pending, exc>>

\* Upload whose except clause logs and does not return
UploadWithoutReturn(r) ==
    /\ pc[r] = "upload"
    /\ calls' = Called(r, "upload")
    /\ pc' = Set(pc, r, "respond")
    /\ \/ /\ blobs' = [blobs EXCEPT ![azure_container_name[r].s] = file_stream[r]]
          /\ UNCHANGED fault
       \/ \E e \in ErrTexts : Fails(r, "upload", e) /\ UNCHANGED blobs
    /\ UNCHANGED <<table, req, azure_container_name, limit, secrets, conn, df,
                   file_stream, pending, exc, resp>>

\* lines 113-121: blob_client.upload_blob(file_stream, overwrite=True)
Upload(r) ==
    /\ pc[r] = "upload"
    /\ calls' = Called(r, "upload")
    /\ \/ /\ blobs' = [blobs EXCEPT ![azure_container_name[r].s] = file_stream[r]]
          /\ pc' = Set(pc, r, "respond")
          /\ UNCHANGED <<resp, fault>>
       \/ \E e \in ErrTexts :
             /\ Fails(r, "upload", e)
             /\ Returns(r, Response(500, MsgUpload, e, None, 0))
             /\ UNCHANGED blobs
    /\ UNCHANGED <<table, req, azure_container_name, limit, secrets, conn, df,
                   file_stream, pending, exc>>

\* lines 123-131
Respond(r) ==
    /\ pc[r] = "respond"
    /\ Returns(r, Response(200, MsgDone, "", None, Len(df[r].rows)))
    /\ UNCHANGED <<table, blobs, req, locals, exc, calls, fault>>

\* lines 144-152 and 180-188: name from the query, else from the JSON body
GreetName(q) ==
    IF Truthy(q.name) THEN [raised |-> FALSE, name |-> q.name]
    ELSE IF q.body.kind \in {"none", "garbage"} THEN [raised |-> FALSE, name |-> q.name]
    ELSE IF q.body.kind = "nonobject" THEN [raised |-> TRUE, name |-> q.name]
    ELSE [raised |-> FALSE, name |-> q.body.name]

\* the body shared by the greeting handlers: hello and generic are the two
\* texts of the handler
Greet(r, hello, generic) ==
    LET got == GreetName(req[r])
    IN  IF got.raised THEN Raises(r, "AttributeError") /\ UNCHANGED resp
        ELSE /\ Returns(r, IF Truthy(got.name) THEN Response(200, hello, "", got.name, 0)
                             ELSE Response(200, generic, "", None, 0))
             /\ UNCHANGED exc

\* lines 137-170
http_trigger(r) ==
    /\ pc[r] = "greet"
    /\ req[r].route = "http_trigger"
    /\ Greet(r, MsgHello, MsgGeneric)
    /\ UNCHANGED <<table, blobs, req, locals, calls, fault>>

\* lines 173-206
http_trigger2(r) ==
    /\ pc[r] = "greet"
    /\ req[r].route = "http_trigger2"
    /\ Greet(r, MsgHello2, MsgGeneric2)
    /\ UNCHANGED <<table, blobs, req, locals, calls, fault>>

\* the invocation is over; the worker takes the next request
Return(r) ==
    /\ pc[r] = "done"
    /\ req' = Set(req, r, NoReq)
    /\ pc' = Set(pc, r, "idle")
    /\ azure_container_name' = Set(azure_container_name, r, None)
    /\ limit' = Set(limit, r, None)
    /\ secrets' = Set(secrets, r, 0)
    /\ conn' = Set(conn, r, "none")
    /\ df' = Set(df, r, NoDf)
    /\ file_stream' = Set(file_stream, r, NoFile)
    /\ pending' = Set(pending, r, NoResp)
    /\ resp' = Set(resp, r, NoResp)
    /\ exc' = Set(exc, r, "")
    /\ calls' = Set(calls, r, NoCalls)
    /\ fault' = Set(fault, r, NoFault)
    /\ UNCHANGED <<table, blobs>>

Step(r) ==
    \/ ResolveAndValidate(r)
    \/ GetSecret(r)
    \/ Connect(r)
    \/ Query(r)
    \/ Close(r)
    \/ Render(r)
    \/ Upload(r)
    \/ Respond(r)
    \/ http_trigger(r)
    \/ http_trigger2(r)
    \/ Return(r)

(***************************************************************************)
(* Specifications.                                                         *)
(***************************************************************************)
\* the function app serving concurrent invocations
Init == InitWith(TablesSmall)
Next == \E r \in Reqs : Receive(r, RequestsP) \/ Step(r)
Spec == Init /\ [][Next]_vars

\* one invocation at a time, every request
InitV == InitWith({Table(<<"category", "value">>, SameRows(MaxRows))})
NextV == Receive(1, RequestsV) \/ Step(1)
SpecV == InitV /\ [][NextV]_vars

\* one invocation at a time, every table
InitR == InitWith(TablesR)
NextR == Receive(1, RequestsP) \/ Step(1)
SpecR == InitR /\ [][NextR]_vars

(***************************************************************************)
(* The properties.                                                         *)
(***************************************************************************)
IsExport(r) == req[r].route = "http_trigger_v3"
IsGreeting(r) == req[r].route \in {"http_trigger", "http_trigger2"}
\* the invocation is past parameter validation
Validated(r) == pc[r] \notin {"idle", "validate", "greet"}
\* a parameter value that is absent or blank
Blank(v) == v.t = "none" \/ (v.t = "str" /\ Strip(v.s) = <<>>)
\* the value of a parameter by the documented order: the query parameter,
\* and the field of the JSON body when the query parameter is absent or blank
Supplied(qv, body, bv) ==
    IF ~Blank(qv) THEN qv ELSE IF body.kind = "object" THEN bv ELSE None
SuppliedName(q) == Supplied(q.azure_container_name, q.body, q.body.azure_container_name)
SuppliedLimit(q) == Supplied(q.limit, q.body, q.body.limit)
\* the sub-case a limit value falls in; JSON booleans are left unclassified
LimitClass(v) ==
    CASE Blank(v) -> "missing"
      [] v.t = "str" /\ ~Blank(v) ->
           IF ~PyInt(v).ok THEN "noninteger"
           ELSE IF PyInt(v).n <= 0 THEN "nonpositive" ELSE "positive"
      [] v.t = "int" -> IF v.n <= 0 THEN "nonpositive" ELSE "positive"
      [] OTHER -> "unclassified"
\* the message of each sub-case
LimitMessage(class) ==
    CASE class = "missing" -> MsgLimit
      [] class = "noninteger" -> MsgInteger
      [] class = "nonpositive" -> MsgPositive
      [] OTHER -> ""

\* C1: a request to http_trigger_v3 whose azure_container_name is missing in
\* query and body (or blank), or whose limit is missing or invalid, is answered
\* with status 400 and a body naming the offending parameter, before any
\* external call (no secret read, no connect or query, no upload).
C1_RejectedBeforeExternalCalls ==
    \A r \in Reqs :
        LET q == req[r]
            badName == Blank(SuppliedName(q))
            badLimit == LimitClass(SuppliedLimit(q)) \in {"missing", "noninteger", "nonpositive"}
        IN  (IsExport(r) /\ Validated(r) /\ (badName \/ badLimit)) =>
                /\ pc[r] = "done"
                /\ resp[r].status = 400
                /\ IF badName \/ Blank(q.azure_container_name) THEN
                       resp[r].text \in {MsgName} \cup
                           (IF badName THEN {} ELSE {MsgLimit, MsgInteger, MsgPositive})
                   ELSE resp[r].text \in {MsgLimit, MsgInteger, MsgPositive}
                /\ calls[r] = NoCalls

\* C2: with a valid container name, a limit that is missing, non-numeric, zero
\* or negative is answered with status 400 and the message of its sub-case,
\* whether it is a query string or a JSON body value (the JSON number 0 too).
C2_LimitMessagePerCase ==
    \A r \in Reqs :
        LET got == Resolve(req[r])
            class == LimitClass(got.limit)
        IN  (IsExport(r) /\ Validated(r) /\ ~got.raised
                /\ ~Blank(got.azure_container_name)
                /\ class \in {"missing", "noninteger", "nonpositive"}) =>
                /\ pc[r] = "done"
                /\ resp[r].status = 400
                /\ resp[r].text = LimitMessage(class)

\* C3: each parameter is the query parameter when present and not blank
\* (whitespace-only counts as blank), else the JSON body field; an unparseable
\* body is no hard error and counts as no body.  So the handler accepts or
\* rejects the request as validation of the values so resolved decides.
C3_QueryThenBody ==
    \A r \in Reqs :
        LET q == req[r]
            want == Validate(SuppliedName(q), SuppliedLimit(q))
        IN  (IsExport(r) /\ Validated(r)) =>
                /\ q.body.kind = "garbage" => exc[r] # "AttributeError"
                /\ exc[r] # "AttributeError" =>
                      IF want.text = ""
                      THEN /\ resp[r].status # 400
                           /\ azure_container_name[r] = SuppliedName(q)
                           /\ limit[r] = want.limit
                      ELSE /\ resp[r].status = 400
                           /\ resp[r].text = want.text

\* C4: a failing get_secret call ends the request with an HTTP 500 response
\* carrying the underlying message, not with an unhandled exception, and
\* without a database connection or a blob upload.
C4_SecretFailureIsResponse ==
    \A r \in Reqs :
        (pc[r] = "done" /\ fault[r].stage = "secret") =>
            /\ exc[r] = ""
            /\ resp[r].status = 500
            /\ resp[r].err = fault[r].err
            /\ calls[r].connect = 0
            /\ calls[r].upload = 0

\* C10: the greeting endpoints answer every request with status 200; the text
\* is the personalized one exactly when a non-empty name is in the query or,
\* failing that, in the JSON body.
C10_GreetingAlways200 ==
    \A r \in Reqs :
        LET q == req[r]
            inBody == q.body.kind = "object" /\ Truthy(q.body.name)
            named == Truthy(q.name) \/ inBody
            textName == q.body.kind # "object" \/ q.body.name.t \in {"none", "str"}
        IN  (IsGreeting(r) /\ pc[r] = "done") =>
                /\ resp[r].status = 200
                /\ textName =>
                      /\ named <=> resp[r].text \in {MsgHello, MsgHello2}
                      /\ ~named <=> resp[r].text \in {MsgGeneric, MsgGeneric2}
                      /\ named => resp[r].name = (IF Truthy(q.name) THEN q.name ELSE q.body.name)

\* the connect call of the invocation returned a connection
Connected(r) == calls[r].connect = 1 /\ fault[r].stage \notin {"secret", "connect"}

\* C5: a connection that was opened is closed exactly once after the query
\* attempt, whether the query succeeded or raised, before rendering or upload
\* starts; no connection is open when the request has ended; no close is
\* attempted when connect failed.
C5_ConnectionClosedOnce ==
    \A r \in Reqs :
        /\ conn[r] = "open" => pc[r] \in {"query", "close"}
        /\ pc[r] = "close" => calls[r].query = 1 /\ calls[r].close = 0
        /\ pc[r] \in {"render", "upload", "respond"} =>
              conn[r] = "closed" /\ calls[r].close = 1
        /\ pc[r] = "done" =>
              /\ conn[r] # "open"
              /\ calls[r].close = (IF Connected(r) THEN 1 ELSE 0)
              /\ Connected(r) => conn[r] = "closed" /\ calls[r].query = 1
\* the query raised and the connection was closed
C5_Witness ==
    \E r \in Reqs :
        pc[r] = "done" /\ fault[r].stage = "query" /\ conn[r] = "closed" /\ calls[r].close = 1

\* C6: the stages run forward and each external operation is attempted at
\* most once: query only after a successful connect, render only after a
\* successful fetch, upload only after a successful render, 200 only after a
\* successful upload; a request failing at connect, fetch or render never
\* writes to blob storage.
C6_StagesForwardOnce ==
    \A r \in Reqs :
        /\ calls[r].secret <= Len(SecretNames)
        /\ \A op \in {"connect", "query", "close", "render", "upload"} : calls[r][op] <= 1
        /\ calls[r].connect = 1 => secrets[r] = Len(SecretNames)
        /\ calls[r].query = 1 => Connected(r)
        /\ calls[r].render = 1 =>
              calls[r].query = 1 /\ fault[r].stage # "query" /\ df[r] # NoDf
        /\ calls[r].upload = 1 =>
              calls[r].render = 1 /\ fault[r].stage # "render" /\ file_stream[r] # NoFile
        /\ (IsExport(r) /\ resp[r].status = 200) =>
              calls[r].upload = 1 /\ fault[r] = NoFault
        /\ fault[r].stage \in {"connect", "query", "render"} => calls[r].upload = 0
\* rendering failed after a successful fetch, and nothing was uploaded
C6_Witness ==
    \E r \in Reqs :
        /\ pc[r] = "done" /\ fault[r].stage = "render"
        /\ calls[r].query = 1 /\ calls[r].upload = 0 /\ blobs[azure_container_name[r].s] = NoFile

\* the diagnostic text of each stage
StageMessage(stage) ==
    CASE stage = "connect" -> MsgConnect
      [] stage = "query" -> MsgFetch
      [] stage = "render" -> MsgExcel
      [] stage = "upload" -> MsgUpload
\* the calls that come after a stage
LaterCalls(stage) ==
    CASE stage = "connect" -> {"query", "close", "render", "upload"}
      [] stage = "query" -> {"render", "upload"}
      [] stage = "render" -> {"upload"}
      [] stage = "upload" -> {}

\* C7: a failure of connect, query, rendering or upload ends the request at
\* once with status 500 and a message that is distinct per stage and embeds the
\* underlying error text; the first failing stage alone decides the response.
C7_StageFailureIs500 ==
    /\ Cardinality({MsgConnect, MsgFetch, MsgExcel, MsgUpload}) = 4
    /\ \A r \in Reqs :
          fault[r].stage \in {"connect", "query", "render", "upload"} =>
              /\ pc[r] \in {"close", "done"}
              /\ \A op \in LaterCalls(fault[r].stage) : calls[r][op] = 0
              /\ pc[r] = "done" =>
                    /\ exc[r] = ""
                    /\ resp[r] = Response(500, StageMessage(fault[r].stage), fault[r].err, None, 0)
\* the upload failed and the request ended with the upload diagnostic
C7_Witness ==
    \E r \in Reqs :
        pc[r] = "done" /\ fault[r].stage = "upload" /\ resp[r].status = 500
            /\ resp[r].text = MsgUpload

\* the records a 200 response reports
Records(r) == Len(df[r].rows)
\* the request fetched min(limit, rows of the table) rows and its workbook
\* has a header and that many data rows
FetchedWithinLimit(r) ==
    /\ Records(r) <= limit[r].n
    /\ Records(r) = Min(limit[r].n, Len(table.rows))
    /\ file_stream[r].Data.header = table.cols
    /\ file_stream[r].Data.rows = [i \in 1..Records(r) |-> table.rows[i]]
Reported(r) ==
    (IsExport(r) /\ pc[r] = "done" /\ resp[r].status = 200) =>
        resp[r].records = Records(r) /\ resp[r].text = MsgDone /\ FetchedWithinLimit(r)

\* C8 as stated: a request that returns 200 reports N = min(limit, rows)
\* records, and when the response is produced the blob (container, blob file
\* name) holds the workbook rendered by this request, with N data rows and a
\* header.
C8_BlobHoldsWorkbookAtResponse ==
    \A r \in Reqs :
        /\ Reported(r)
        /\ pc[r] = "respond" =>
              FetchedWithinLimit(r) /\ blobs[azure_container_name[r].s] = file_stream[r]

\* C8 as amended: a request that returns 200 reports N = min(limit, rows)
\* records; its upload step leaves the blob holding the workbook rendered by
\* this request, N data rows and a header, whatever the blob held before; when
\* the response is produced the blob holds a workbook, which a concurrent
\* request for the same container may have written since.
C8_UploadStoresWorkbook ==
    /\ [](\A r \in Reqs :
            /\ Reported(r)
            /\ pc[r] = "respond" =>
                  FetchedWithinLimit(r) /\ blobs[azure_container_name[r].s] # NoFile)
    /\ [][\A r \in Reqs :
            (pc[r] = "upload" /\ pc'[r] = "respond") =>
                /\ blobs'[azure_container_name[r].s] = file_stream[r]
                /\ \A c \in ContainerNames \ {azure_container_name[r].s} : blobs'[c] = blobs[c]]_vars
\* two requests returned 200 for the same container with different workbooks,
\* and the blob holds the one uploaded last
C8_Witness ==
    \E r, o \in Reqs :
        /\ r # o
        /\ \A i \in {r, o} : IsExport(i) /\ pc[i] = "done" /\ resp[i].status = 200
        /\ azure_container_name[r] = azure_container_name[o]
        /\ file_stream[r] # file_stream[o]
        /\ blobs[azure_container_name[r].s] = file_stream[r]

\* the values of the first column of a DataFrame
FirstColumn(d) == {d.rows[i][1] : i \in 1..Len(d.rows)}
\* number of rows of key k whose second column is not null
NonNull(d, k) == Cardinality({i \in 1..Len(d.rows) : d.rows[i][1] = k /\ d.rows[i][2] # NULL})
\* sheet p has one row per key of keys, holding the count of the key
CountsPerKey(p, d, keys) ==
    /\ {p.rows[i][1] : i \in 1..Len(p.rows)} = keys
    /\ Len(p.rows) = Cardinality(keys)
    /\ \A i \in 1..Len(p.rows) : p.rows[i][2] = NonNull(d, p.rows[i][1])
\* the workbooks rendered have a Data sheet and the PivotTable sheet that
\* fits the grouping keys given by keysOf
PivotSheets(keysOf(_)) ==
    \A r \in Reqs :
        file_stream[r] # NoFile =>
            /\ file_stream[r].Data = [header |-> df[r].cols, rows |-> df[r].rows]
            /\ IF Len(df[r].cols) >= 2
               THEN CountsPerKey(file_stream[r].PivotTable, df[r], keysOf(df[r]))
               ELSE file_stream[r].PivotTable = MessageSheet

\* C9 as stated: the PivotTable sheet has one row per distinct value of the
\* first column (a null among them) with the count of non-null values of the
\* second column; with fewer than two columns it holds exactly the message.
C9_PivotRowPerDistinctValue == PivotSheets(FirstColumn)

\* C9 as amended: the PivotTable sheet has one row per distinct non-null value
\* of the first column with the count of non-null values of the second column
\* in that group (rows whose first column is null are in no group); with fewer
\* than two columns it holds exactly the message.
C9_PivotRowPerNonNullValue == PivotSheets(LAMBDA d : FirstColumn(d) \ {NULL})
\* rows (a,1),(a,1),(b,1) were rendered to the pivot rows a:2, b:1
C9_Witness ==
    \E r \in Reqs :
        /\ file_stream[r] # NoFile
        /\ file_stream[r].PivotTable.rows = << <<"a", 2>>, <<"b", 1>> >>

=============================================================================
